---------------------------- MODULE Spec2Model ----------------------------
(***************************************************************************)
(* Universe of src/src/lib.rs: a toroidal Game of Life grid held in two    *)
(* FixedBitSet buffers, cells[0] and cells[1], with i naming the active    *)
(* one.  A FixedBitSet of n bits is a sequence of n BOOLEANs; bit k of the *)
(* code is element k + 1 of the sequence.                                  *)
(***************************************************************************)
EXTENDS Integers, Sequences, FiniteSets, TLC

VARIABLES
    universe,   \* the Universe: [width, height, cells, i]
    status,     \* "ok", or "panic" once a call has panicked (the object is lost)
    op,         \* history: the last call, [name, a, b, l]
    pre,        \* history: the Universe as it was before the last call
    nticks,     \* history: ticks counted by the scenario specifications
    drawn       \* history: what a scenario specification has drawn on the grid

vars == <<universe, status, op, pre, nticks, drawn>>

----------------------------------------------------------------------------
(* Bounds of the model *)

\* The tick specification: width, height in 0..TickMaxDim, at most TickMaxCells cells.
TickMaxDim == 4
TickMaxCells == 12
\* The tick specification: at most MaxTicks calls of tick.
MaxTicks == 2
\* The lifecycle specification: width, height and every coordinate passed in are
\* in 0..MaxDim, a grid has at most MaxCells cells, set_cells gets at most
\* MaxList coordinates.
MaxDim == 2
MaxCells == 4
MaxList == 1
\* The editing specification: set_cells gets at most MaxEditList coordinates.
MaxEditList == 2
\* The insertion specification: grids of 1..InsertMaxDim by 1..InsertMaxDim (and
\* the grids of 13 or 14 by 13 or 14, which hold a pulsar), offsets in
\* 0..InsertMaxDim.
InsertMaxDim == 5
\* The glider specification: at most MaxGliderTicks calls of tick.
MaxGliderTicks == 4
\* The blinker specification: grids of 5..BlinkerMaxDim by 5..BlinkerMaxDim.
BlinkerMaxDim == 6

----------------------------------------------------------------------------
(* FixedBitSet, as lib.rs uses it *)

\* FixedBitSet::with_capacity(bits): bits zero bits.
with_capacity(bits) == [k \in 1..bits |-> FALSE]

\* FixedBitSet::contains(bit), also the indexing cells[bit]: FALSE out of range.
bits_contains(bs, bit) == bit < Len(bs) /\ bs[bit + 1]

\* The range assertion of FixedBitSet::set and FixedBitSet::toggle.
bits_in_range(bs, bit) == bit < Len(bs)

\* FixedBitSet::clear(): every bit zero, the length kept.
bits_clear(bs) == [k \in 1..Len(bs) |-> FALSE]

----------------------------------------------------------------------------
(* Universe *)

get_index(u, row, column) == row * u.width + column

new_cells(width, height) == with_capacity(width * height)

empty(width, height) ==
    [width |-> width, height |-> height,
     cells |-> <<new_cells(width, height), new_cells(width, height)>>, i |-> 0]

get_cells(u) == u.cells[u.i + 1]

\* A call in progress: the Universe so far, and whether the call has panicked.
Running(u) == [u |-> u, panic |-> FALSE]

cells_set_additive(s, b, idx, value) ==
    IF s.panic THEN s
    ELSE IF bits_in_range(s.u.cells[b + 1], idx)
         THEN [s EXCEPT !.u.cells[b + 1][idx + 1] = @ \/ value]
         ELSE [s EXCEPT !.panic = TRUE]

\* self.cells[b].set(idx, value): panics when idx is out of range.
cells_set(s, b, idx, value) ==
    IF s.panic THEN s
    ELSE IF bits_in_range(s.u.cells[b + 1], idx)
         THEN [s EXCEPT !.u.cells[b + 1][idx + 1] = value]
         ELSE [s EXCEPT !.panic = TRUE]

\* self.cells[b].toggle(idx): panics when idx is out of range.
cells_toggle(s, b, idx) ==
    IF s.panic THEN s
    ELSE IF bits_in_range(s.u.cells[b + 1], idx)
         THEN [s EXCEPT !.u.cells[b + 1][idx + 1] = ~s.u.cells[b + 1][idx + 1]]
         ELSE [s EXCEPT !.panic = TRUE]

set_width_active_only(u, width) ==
    Running([u EXCEPT !.width = width,
                      !.cells[u.i + 1] = new_cells(width, u.height)])

set_width(u, width) ==
    Running([u EXCEPT !.width = width,
                      !.cells = <<new_cells(width, u.height), new_cells(width, u.height)>>])

set_height_keeping(u, height) ==
    LET kept(old) == [k \in 1..(u.width * height) |-> k <= Len(old) /\ old[k]]
    IN  Running([u EXCEPT !.height = height,
                          !.cells = <<kept(u.cells[1]), kept(u.cells[2])>>])

set_height(u, height) ==
    Running([u EXCEPT !.height = height,
                      !.cells = <<new_cells(u.width, height), new_cells(u.width, height)>>])

toggle_cell(u, row, column) ==
    cells_toggle(Running(u), u.i, get_index(u, row, column))

north(u, row) == IF row = 0 THEN u.height - 1 ELSE row - 1

south_nowrap(u, row) == row + 1

south(u, row) == IF row = u.height - 1 THEN 0 ELSE row + 1

west(u, column) == IF column = 0 THEN u.width - 1 ELSE column - 1

east_nowrap(u, column) == column + 1

east(u, column) == IF column = u.width - 1 THEN 0 ELSE column + 1

\* cells[idx] as u8
bit(u, idx) == IF bits_contains(u.cells[u.i + 1], idx) THEN 1 ELSE 0

live_neighbor_count(u, row, column) ==
    LET n == north(u, row)
        s == south(u, row)
        w == west(u, column)
        e == east(u, column)
    IN  bit(u, get_index(u, n, w)) + bit(u, get_index(u, n, column))
        + bit(u, get_index(u, n, e)) + bit(u, get_index(u, row, w))
        + bit(u, get_index(u, row, e)) + bit(u, get_index(u, s, w))
        + bit(u, get_index(u, s, column)) + bit(u, get_index(u, s, e))

next_cell_no_underpopulation(cell, live_neighbors) ==
    IF cell /\ live_neighbors < 2 THEN TRUE
    ELSE IF cell /\ live_neighbors \in {2, 3} THEN TRUE
    ELSE IF cell /\ live_neighbors > 3 THEN FALSE
    ELSE IF ~cell /\ live_neighbors = 3 THEN TRUE
    ELSE cell

next_cell_no_birth(cell, live_neighbors) ==
    IF cell /\ live_neighbors < 2 THEN FALSE
    ELSE IF cell /\ live_neighbors \in {2, 3} THEN TRUE
    ELSE IF cell /\ live_neighbors > 3 THEN FALSE
    ELSE cell

\* The match of tick, its arms in order.
next_cell(cell, live_neighbors) ==
    IF cell /\ live_neighbors < 2 THEN FALSE
    ELSE IF cell /\ live_neighbors \in {2, 3} THEN TRUE
    ELSE IF cell /\ live_neighbors > 3 THEN FALSE
    ELSE IF ~cell /\ live_neighbors = 3 THEN TRUE
    ELSE cell

new_i_same(u) == u.i

\* new_i of tick: the buffer tick writes, active after it.
new_i(u) == (u.i + 1) % 2

\* The inner loop of tick, for col in 0..self.width, from col on.  Reads go to
\* the Universe as the loops have left it.
RECURSIVE tick_cols(_, _, _, _)
tick_cols(s, ni, row, col) ==
    IF s.panic \/ col >= s.u.width THEN s
    ELSE LET idx == get_index(s.u, row, col)
             cell == bits_contains(s.u.cells[s.u.i + 1], idx)
             live_neighbors == live_neighbor_count(s.u, row, col)
         IN  tick_cols(cells_set(s, ni, idx, next_cell(cell, live_neighbors)),
                       ni, row, col + 1)

\* The outer loop of tick, for row in 0..self.height, from row on.
RECURSIVE tick_rows(_, _, _)
tick_rows(s, ni, row) ==
    IF s.panic \/ row >= s.u.height THEN s
    ELSE tick_rows(tick_cols(s, ni, row, 0), ni, row + 1)

tick(u) ==
    LET s == tick_rows(Running(u), new_i(u), 0)
    IN  IF s.panic THEN s ELSE [s EXCEPT !.u.i = new_i(u)]

\* Math::random() < prob for each bit: never with prob 0, always with prob 1
\* (Math::random() is in [0, 1)), either way in between.
Probs == {"zero", "between", "one"}

Draws(prob, n) ==
    IF prob = "zero" THEN {[k \in 1..n |-> FALSE]}
    ELSE IF prob = "one" THEN {[k \in 1..n |-> TRUE]}
    ELSE [1..n -> BOOLEAN]

\* The loop of shuffle over the bits lo..hi - 1, in order, bit idx getting
\* draws[idx + 1], the outcome of Math::random() < prob for it.  The range is
\* walked in two halves, which keeps the evaluation shallow.
RECURSIVE shuffle_loop(_, _, _, _)
shuffle_loop(s, draws, lo, hi) ==
    IF s.panic \/ lo >= hi THEN s
    ELSE IF hi = lo + 1 THEN cells_set(s, s.u.i, lo, draws[lo + 1])
    ELSE LET mid == (lo + hi) \div 2
         IN  shuffle_loop(shuffle_loop(s, draws, lo, mid), draws, mid, hi)

shuffle(u, draws) == shuffle_loop(Running(u), draws, 0, Len(u.cells[u.i + 1]))

random(width, height, draws) == shuffle(empty(width, height), draws)

clear(u) == Running([u EXCEPT !.cells[u.i + 1] = bits_clear(u.cells[u.i + 1])])

\* (x + y) % m: a remainder by zero panics.
rem_panics(m) == m = 0

\* The inner loop of insert_at, for c in 0..width, from c on.
RECURSIVE insert_cols(_, _, _, _, _, _, _)
insert_cols(s, row, col, img, width, r, c) ==
    IF s.panic \/ c >= width THEN s
    ELSE LET img_index == r * width + c
             value == img[img_index + 1]
         IN  IF rem_panics(s.u.height) \/ rem_panics(s.u.width)
             THEN [s EXCEPT !.panic = TRUE]
             ELSE LET index == get_index(s.u, (row + r) % s.u.height,
                                              (col + c) % s.u.width)
                  IN  insert_cols(cells_set(s, s.u.i, index, value),
                                  row, col, img, width, r, c + 1)

\* The outer loop of insert_at, for r in 0..height, from r on.
RECURSIVE insert_rows(_, _, _, _, _, _, _)
insert_rows(s, row, col, img, width, height, r) ==
    IF s.panic \/ r >= height THEN s
    ELSE insert_rows(insert_cols(s, row, col, img, width, r, 0),
                     row, col, img, width, height, r + 1)

insert_at(u, row, col, img, width, height) ==
    insert_rows(Running(u), row, col, img, width, height, 0)

\* The literals of the patterns, 1 for true.
Img(rows) == [k \in 1..Len(rows) |-> rows[k] = 1]

space_ship ==
    Img(<<0, 1, 0, 0, 1,
          1, 0, 0, 0, 0,
          1, 0, 0, 0, 1,
          1, 1, 1, 1, 0>>)

pulsar ==
    Img(<<0, 0, 1, 1, 1, 0, 0, 0, 1, 1, 1, 0, 0,
          0, 0, 0, 0, 0, 0, 0, 0, 0, 0, 0, 0, 0,
          1, 0, 0, 0, 0, 1, 0, 1, 0, 0, 0, 0, 1,
          1, 0, 0, 0, 0, 1, 0, 1, 0, 0, 0, 0, 1,
          1, 0, 0, 0, 0, 1, 0, 1, 0, 0, 0, 0, 1,
          0, 0, 1, 1, 1, 0, 0, 0, 1, 1, 1, 0, 0,
          0, 0, 0, 0, 0, 0, 0, 0, 0, 0, 0, 0, 0,
          0, 0, 1, 1, 1, 0, 0, 0, 1, 1, 1, 0, 0,
          1, 0, 0, 0, 0, 1, 0, 1, 0, 0, 0, 0, 1,
          1, 0, 0, 0, 0, 1, 0, 1, 0, 0, 0, 0, 1,
          1, 0, 0, 0, 0, 1, 0, 1, 0, 0, 0, 0, 1,
          0, 0, 0, 0, 0, 0, 0, 0, 0, 0, 0, 0, 0,
          0, 0, 1, 1, 1, 0, 0, 0, 1, 1, 1, 0, 0>>)

glider ==
    Img(<<0, 1, 0,
          0, 0, 1,
          1, 1, 1>>)

add_space_ship(u, row, col) == insert_at(u, row, col, space_ship, 5, 4)

add_pulsar(u, row, col) == insert_at(u, row, col, pulsar, 13, 13)

add_glider(u, row, col) == insert_at(u, row, col, glider, 3, 3)

\* The loop of set_cells from element k of the list on.
RECURSIVE set_cells_loop(_, _, _)
set_cells_loop(s, list, k) ==
    IF s.panic \/ k > Len(list) THEN s
    ELSE set_cells_loop(
             cells_set(s, s.u.i, get_index(s.u, list[k][1], list[k][2]), TRUE),
             list, k + 1)

set_cells(u, list) == set_cells_loop(Running(u), list, 1)


----------------------------------------------------------------------------
(* History *)

Op(name, a, b, l) == [name |-> name, a |-> a, b |-> b, l |-> l]

\* The call named by o ends as s.  A panic ends the life of the object: no
\* further call is made on it; universe then shows the writes made before it.
Ends(o, s) ==
    /\ status = "ok"
    /\ universe' = s.u
    /\ status' = IF s.panic THEN "panic" ELSE "ok"
    /\ op' = o
    /\ pre' = universe

----------------------------------------------------------------------------
(* The lifecycle specification: Universe::empty, then any calls, without end. *)
(* Its calls keep the history of the resizing calls alone: their argument and *)
(* the Universe before them.                                                  *)

Dims == {d \in (0..MaxDim) \X (0..MaxDim) : d[1] * d[2] <= MaxCells}

\* The coordinates passed to toggle_cell: in range and out of range.
Coords == (0..MaxDim) \X (0..MaxDim)

\* The coordinates passed to set_cells and to the pattern insertions.
Corners == {<<0, 0>>, <<0, MaxDim>>, <<MaxDim, MaxDim>>}

Lists == UNION {[1..n -> Corners] : n \in 0..MaxList}

Init ==
    \E d \in Dims :
        /\ universe = empty(d[1], d[2])
        /\ status = "ok"
        /\ op = Op("empty", d[1], d[2], <<>>)
        /\ pre = universe
        /\ nticks = 0
        /\ drawn = <<>>

Scenario == UNCHANGED <<nticks, drawn>>

\* The call named name ends as s, and no history of it is kept.
Passes(name, s) ==
    /\ status = "ok"
    /\ universe' = s.u
    /\ status' = IF s.panic THEN "panic" ELSE "ok"
    /\ op' = Op(name, 0, 0, <<>>)
    /\ pre' = s.u

SetWidth ==
    \E w \in 0..MaxDim :
        /\ w * universe.height <= MaxCells
        /\ Ends(Op("set_width", w, 0, <<>>), set_width(universe, w))
        /\ Scenario

SetHeight ==
    \E h \in 0..MaxDim :
        /\ universe.width * h <= MaxCells
        /\ Ends(Op("set_height", h, 0, <<>>), set_height(universe, h))
        /\ Scenario

ToggleCell ==
    \E c \in Coords :
        /\ Passes("toggle_cell", toggle_cell(universe, c[1], c[2]))
        /\ Scenario

Tick ==
    /\ Passes("tick", tick(universe))
    /\ Scenario

Shuffle ==
    \E prob \in Probs :
        \E draws \in Draws(prob, Len(get_cells(universe))) :
            /\ Passes("shuffle", shuffle(universe, draws))
            /\ Scenario

Clear ==
    /\ Passes("clear", clear(universe))
    /\ Scenario

AddSpaceShip ==
    \E c \in Corners :
        /\ Passes("add_space_ship", add_space_ship(universe, c[1], c[2]))
        /\ Scenario

AddPulsar ==
    \E c \in Corners :
        /\ Passes("add_pulsar", add_pulsar(universe, c[1], c[2]))
        /\ Scenario

AddGlider ==
    \E c \in Corners :
        /\ Passes("add_glider", add_glider(universe, c[1], c[2]))
        /\ Scenario

SetCells ==
    \E list \in Lists :
        /\ Passes("set_cells", set_cells(universe, list))
        /\ Scenario

Next ==
    \/ SetWidth
    \/ SetHeight
    \/ ToggleCell
    \/ Tick
    \/ Shuffle
    \/ Clear
    \/ AddSpaceShip
    \/ AddPulsar
    \/ AddGlider
    \/ SetCells

Spec == Init /\ [][Next]_vars

----------------------------------------------------------------------------
(* The editing specification: Universe::empty, then toggle_cell, set_cells   *)
(* and clear without end, each call with its history.                        *)

EditLists == UNION {[1..n -> Corners] : n \in 0..MaxEditList}

EditToggleCell ==
    \E c \in Coords :
        /\ Ends(Op("toggle_cell", c[1], c[2], <<>>), toggle_cell(universe, c[1], c[2]))
        /\ Scenario

EditSetCells ==
    \E list \in EditLists :
        /\ Ends(Op("set_cells", 0, 0, list), set_cells(universe, list))
        /\ Scenario

EditClear ==
    /\ Ends(Op("clear", 0, 0, <<>>), clear(universe))
    /\ Scenario

EditNext ==
    \/ EditToggleCell
    \/ EditSetCells
    \/ EditClear

SpecEdit == Init /\ [][EditNext]_vars

----------------------------------------------------------------------------
(* The tick specification: Universe::random, then calls of tick *)

TickDims ==
    {d \in (0..TickMaxDim) \X (0..TickMaxDim) : d[1] * d[2] <= TickMaxCells}

TickInit ==
    \E d \in TickDims, prob \in Probs :
        \E draws \in Draws(prob, d[1] * d[2]) :
            /\ universe = random(d[1], d[2], draws).u
            /\ status = "ok"
            /\ op = Op("random", d[1], d[2], <<>>)
            /\ pre = universe
            /\ nticks = 0
            /\ drawn = <<>>

CountedTick ==
    /\ nticks < MaxTicks
    /\ Ends(Op("tick", 0, 0, <<>>), tick(universe))
    /\ nticks' = nticks + 1
    /\ UNCHANGED drawn

TickNext == CountedTick

SpecTick == TickInit /\ [][TickNext]_vars

----------------------------------------------------------------------------
(* The insertion specification: Universe::random with probability 0 or 1,    *)
(* then one pattern insertion.                                               *)

InsertDims ==
    ((1..InsertMaxDim) \X (1..InsertMaxDim)) \cup ({13, 14} \X {13, 14})

InsertOffsets == (0..InsertMaxDim) \X (0..InsertMaxDim)

InsertInit ==
    \E d \in InsertDims, prob \in {"zero", "one"} :
        \E draws \in Draws(prob, d[1] * d[2]) :
            /\ universe = random(d[1], d[2], draws).u
            /\ status = "ok"
            /\ op = Op("random", d[1], d[2], <<>>)
            /\ pre = universe
            /\ nticks = 0
            /\ drawn = <<>>

InsertSpaceShip ==
    \E c \in InsertOffsets :
        /\ op.name = "random"
        /\ Ends(Op("add_space_ship", c[1], c[2], <<>>), add_space_ship(universe, c[1], c[2]))
        /\ Scenario

InsertPulsar ==
    \E c \in InsertOffsets :
        /\ op.name = "random"
        /\ Ends(Op("add_pulsar", c[1], c[2], <<>>), add_pulsar(universe, c[1], c[2]))
        /\ Scenario

InsertGlider ==
    \E c \in InsertOffsets :
        /\ op.name = "random"
        /\ Ends(Op("add_glider", c[1], c[2], <<>>), add_glider(universe, c[1], c[2]))
        /\ Scenario

InsertNext ==
    \/ InsertSpaceShip
    \/ InsertPulsar
    \/ InsertGlider

SpecInsert == InsertInit /\ [][InsertNext]_vars

----------------------------------------------------------------------------
(* The glider specification: Universe::empty(8, 8), add_glider at any offset, *)
(* then calls of tick.                                                        *)

GliderInit ==
    /\ universe = empty(8, 8)
    /\ status = "ok"
    /\ op = Op("empty", 8, 8, <<>>)
    /\ pre = universe
    /\ nticks = 0
    /\ drawn = <<>>

DrawGlider ==
    \E row \in 0..7, col \in 0..7 :
        /\ op.name = "empty"
        /\ Ends(Op("add_glider", row, col, <<>>), add_glider(universe, row, col))
        /\ drawn' = <<row, col>>
        /\ UNCHANGED nticks

GliderTick ==
    /\ op.name \in {"add_glider", "tick"}
    /\ nticks < MaxGliderTicks
    /\ Ends(Op("tick", 0, 0, <<>>), tick(universe))
    /\ nticks' = nticks + 1
    /\ UNCHANGED drawn

GliderNext ==
    \/ DrawGlider
    \/ GliderTick

SpecGlider == GliderInit /\ [][GliderNext]_vars

----------------------------------------------------------------------------
(* The blinker specification: Universe::empty of at least 5 x 5, a blinker   *)
(* drawn by one set_cells or by three toggle_cell, then tick without end.    *)
(* drawn is the blinker the caller draws: its centre and its line; nticks    *)
(* counts the ticks modulo 2.                                                *)

Lines == {"row", "column"}

OtherLine(line) == IF line = "row" THEN "column" ELSE "row"

\* The three cells of the blinker about (row, col) along line, on the torus.
BlinkerList(u, row, col, line) ==
    IF line = "row"
    THEN <<<<row, (col + u.width - 1) % u.width>>, <<row, col>>,
           <<row, (col + 1) % u.width>>>>
    ELSE <<<<(row + u.height - 1) % u.height, col>>, <<row, col>>,
           <<(row + 1) % u.height, col>>>>

DrawnList == BlinkerList(universe, drawn.row, drawn.col, drawn.line)

BlinkerInit ==
    \E w \in 5..BlinkerMaxDim, h \in 5..BlinkerMaxDim :
        \E row \in 0..(h - 1), col \in 0..(w - 1), line \in Lines :
            /\ universe = empty(w, h)
            /\ status = "ok"
            /\ op = Op("empty", w, h, <<>>)
            /\ pre = universe
            /\ nticks = 0
            /\ drawn = [row |-> row, col |-> col, line |-> line]

DrawBySetCells ==
    /\ op.name = "empty"
    /\ Ends(Op("set_cells", 0, 0, DrawnList), set_cells(universe, DrawnList))
    /\ UNCHANGED <<nticks, drawn>>

DrawByToggleCell ==
    \E k \in 1..3 :
        /\ op.name \in {"empty", "toggle_cell"}
        /\ ~bits_contains(get_cells(universe),
                          get_index(universe, DrawnList[k][1], DrawnList[k][2]))
        /\ Ends(Op("toggle_cell", DrawnList[k][1], DrawnList[k][2], <<>>),
                toggle_cell(universe, DrawnList[k][1], DrawnList[k][2]))
        /\ UNCHANGED <<nticks, drawn>>

BlinkerDrawn ==
    \A k \in 1..3 :
        bits_contains(get_cells(universe),
                      get_index(universe, DrawnList[k][1], DrawnList[k][2]))

BlinkerTick ==
    /\ op.name = "tick" \/ BlinkerDrawn
    /\ Ends(Op("tick", 0, 0, <<>>), tick(universe))
    /\ nticks' = (nticks + 1) % 2
    /\ UNCHANGED drawn

BlinkerNext ==
    \/ DrawBySetCells
    \/ DrawByToggleCell
    \/ BlinkerTick

SpecBlinker == BlinkerInit /\ [][BlinkerNext]_vars

----------------------------------------------------------------------------
(* What the claims speak of *)

InRange(u, row, col) == row \in 0..(u.height - 1) /\ col \in 0..(u.width - 1)

Rows(u) == 0..(u.height - 1)
Cols(u) == 0..(u.width - 1)

\* The cell (row, col) of the active buffer, at linear index row * width + col.
Alive(u, row, col) == bits_contains(get_cells(u), row * u.width + col)

Offsets == ({-1, 0, 1} \X {-1, 0, 1}) \ {<<0, 0>>}

Wrapped(u, row, col, d) ==
    <<(row + d[1] + u.height) % u.height, (col + d[2] + u.width) % u.width>>

\* The number of offsets whose wrapped position is alive.
WrappedCount(u, row, col) ==
    Cardinality({d \in Offsets :
        LET p == Wrapped(u, row, col, d) IN Alive(u, p[1], p[2])})

LifeRule(alive, n) == IF alive THEN n \in {2, 3} ELSE n = 3

\* C1: one call of tick makes the active buffer the next generation of the
\* active buffer before it: each cell is the Life rule of its value and of the
\* count of alive cells at its eight wrapped positions before the tick; the
\* dimensions and both lengths are kept.
C1_TickIsNextGeneration ==
    (op.name = "tick") =>
        /\ status = "ok"
        /\ universe.width = pre.width /\ universe.height = pre.height
        /\ universe.i = 1 - pre.i
        /\ Len(get_cells(universe)) = pre.width * pre.height
        /\ \A row \in Rows(pre), col \in Cols(pre) :
              Alive(universe, row, col)
                  = LifeRule(Alive(pre, row, col), WrappedCount(pre, row, col))

\* A second tick (active index 1 before it, the inactive buffer holding a stale
\* generation with live cells) that gives birth and lets a cell die.
C1_Witness ==
    /\ op.name = "tick" /\ nticks = 2 /\ pre.i = 1
    /\ \E k \in 1..Len(pre.cells[1]) : pre.cells[1][k]
    /\ pre.cells[1] /= universe.cells[1]
    /\ \E row \in Rows(pre), col \in Cols(pre) :
          ~Alive(pre, row, col) /\ Alive(universe, row, col)
    /\ \E row \in Rows(pre), col \in Cols(pre) :
          Alive(pre, row, col) /\ ~Alive(universe, row, col)


NeighbourCells(u, row, col) == {Wrapped(u, row, col, d) : d \in Offsets}

\* The alive cells among the distinct wrapped neighbours, the cell itself left out.
DistinctCount(u, row, col) ==
    Cardinality({p \in NeighbourCells(u, row, col) \ {<<row, col>>} :
                    Alive(u, p[1], p[2])})

\* C2, as claimed: on every grid of at least 1 x 1, live_neighbor_count is the
\* number of alive cells among the wrapped neighbours, no cell counted twice
\* and the cell itself never counted.
C2_NoDoubleNoSelfCounting ==
    \A row \in Rows(universe), col \in Cols(universe) :
        live_neighbor_count(universe, row, col) = DistinctCount(universe, row, col)

\* C2, amended: on every grid of at least 1 x 1, live_neighbor_count is in 0..8
\* and is the number of the eight offsets whose wrapped position is alive; on
\* a grid of at least 3 x 3 these positions are eight distinct cells other than
\* the cell itself, so no cell is counted twice and the cell is not counted.
C2_WrappedNeighbourCount ==
    \A row \in Rows(universe), col \in Cols(universe) :
        /\ live_neighbor_count(universe, row, col) \in 0..8
        /\ live_neighbor_count(universe, row, col) = WrappedCount(universe, row, col)
        /\ (universe.width >= 3 /\ universe.height >= 3) =>
              /\ Cardinality(NeighbourCells(universe, row, col)) = 8
              /\ <<row, col>> \notin NeighbourCells(universe, row, col)
              /\ live_neighbor_count(universe, row, col)
                    = DistinctCount(universe, row, col)

\* A tick of a grid of at least 3 x 3 with an alive cell whose eight neighbours
\* are all alive, which the tick lets die.
C2_Witness ==
    /\ op.name = "tick" /\ pre.width >= 3 /\ pre.height >= 3
    /\ \E row \in Rows(pre), col \in Cols(pre) :
          /\ live_neighbor_count(pre, row, col) = 8
          /\ Alive(pre, row, col) /\ ~Alive(universe, row, col)

LiveCells(u) == {p \in Rows(u) \X Cols(u) : Alive(u, p[1], p[2])}

\* C8: on every grid of at least 2 x 2 with exactly one cell alive, that cell
\* is dead after one tick.
C8_SingleCellDies ==
    (op.name = "tick" /\ pre.width >= 2 /\ pre.height >= 2
        /\ Cardinality(LiveCells(pre)) = 1) =>
        /\ status = "ok"
        /\ \A p \in LiveCells(pre) : ~Alive(universe, p[1], p[2])

\* A tick of a 2 x 2 grid with one cell alive, dead after it.
C8_Witness ==
    /\ op.name = "tick" /\ pre.width = 2 /\ pre.height = 2
    /\ Cardinality(LiveCells(pre)) = 1
    /\ LiveCells(pre) \cap LiveCells(universe) = {}

\* C4: both buffers hold width * height bits, after every call.
C4_DimensionInvariant ==
    /\ Len(get_cells(universe)) = universe.width * universe.height
    /\ Len(universe.cells[1]) = universe.width * universe.height
    /\ Len(universe.cells[2]) = universe.width * universe.height

\* A set_width after an odd number of ticks that changes the number of cells.
C4_Witness ==
    /\ op.name = "set_width" /\ universe.i = 1
    /\ Len(get_cells(pre)) > 0
    /\ Len(get_cells(universe)) > Len(get_cells(pre))
    /\ Len(get_cells(universe)) = universe.width * universe.height

AllDead(u) == \A row \in Rows(u), col \in Cols(u) : ~Alive(u, row, col)

\* C5: after set_width(w2) every cell reads dead, width() is w2 and height() is
\* as before; after set_height(h2) every cell reads dead, height() is h2 and
\* width() is as before.
C5_ResizeResets ==
    /\ (op.name = "set_width") =>
          /\ status = "ok" /\ AllDead(universe)
          /\ universe.width = op.a /\ universe.height = pre.height
    /\ (op.name = "set_height") =>
          /\ status = "ok" /\ AllDead(universe)
          /\ universe.height = op.a /\ universe.width = pre.width

\* A set_height of a grid with live cells and active index 1 to another height
\* with cells.
C5_Witness ==
    /\ op.name = "set_height" /\ pre.i = 1 /\ ~AllDead(pre)
    /\ universe.height /= pre.height /\ universe.height > 0
    /\ AllDead(universe) /\ universe.height = op.a

\* C9, as claimed: a width or height of zero is rejected, so no Universe with
\* width() = 0 or height() = 0 is there to be used.
C9_ZeroDimensionRejected ==
    (universe.width = 0 \/ universe.height = 0) => status = "panic"

\* C10, as claimed: toggle_cell and set_cells with a coordinate out of range
\* end in a failure and change no cell.
C10_OutOfRangeIsCheckedFailure ==
    /\ (op.name = "toggle_cell" /\ ~InRange(pre, op.a, op.b)) =>
          (status = "panic" /\ universe.cells = pre.cells)
    /\ (op.name = "set_cells"
          /\ \E k \in 1..Len(op.l) : ~InRange(pre, op.l[k][1], op.l[k][2])) =>
          (status = "panic" /\ universe.cells = pre.cells)


IsInsertion == op.name \in {"add_glider", "add_space_ship", "add_pulsar"}

\* The pattern a call inserts: its bits, its width and its height.
Inserted ==
    CASE op.name = "add_glider" -> [img |-> glider, width |-> 3, height |-> 3]
      [] op.name = "add_space_ship" -> [img |-> space_ship, width |-> 5, height |-> 4]
      [] op.name = "add_pulsar" -> [img |-> pulsar, width |-> 13, height |-> 13]

\* The grid cells the insertion addresses.
Addressed ==
    {<<(op.a + r) % pre.height, (op.b + c) % pre.width>> :
        r \in 0..(Inserted.height - 1), c \in 0..(Inserted.width - 1)}

\* Every addressed cell holds the pattern's bit, every other cell its value
\* from before the insertion.
Stamped ==
    /\ status = "ok"
    /\ \A r \in 0..(Inserted.height - 1), c \in 0..(Inserted.width - 1) :
          Alive(universe, (op.a + r) % pre.height, (op.b + c) % pre.width)
              = Inserted.img[r * Inserted.width + c + 1]
    /\ \A p \in (Rows(pre) \X Cols(pre)) \ Addressed :
          Alive(universe, p[1], p[2]) = Alive(pre, p[1], p[2])

\* C3, as claimed: after a pattern insertion at any offset on any grid every
\* addressed cell holds the pattern's bit and every other cell keeps its value.
C3_InsertionStampsOnAnyGrid == IsInsertion => Stamped

\* C3, amended: the same on every grid at least as wide and as high as the
\* pattern; the dimensions, the active index and the inactive buffer are kept.
C3_InsertionStampsWhereItFits ==
    (IsInsertion /\ pre.width >= Inserted.width /\ pre.height >= Inserted.height) =>
        /\ Stamped
        /\ universe.width = pre.width /\ universe.height = pre.height
        /\ universe.i = pre.i
        /\ universe.cells[2 - pre.i] = pre.cells[2 - pre.i]

\* A pulsar inserted into a 14 x 14 grid of live cells at an offset where it
\* wraps both ways: dead bits of the pattern have overwritten live cells, and
\* live cells off the pattern are kept.
C3_Witness ==
    /\ op.name = "add_pulsar" /\ pre.width = 14 /\ pre.height = 14
    /\ op.a + 13 > 14 /\ op.b + 13 > 14
    /\ \A p \in Rows(pre) \X Cols(pre) : Alive(pre, p[1], p[2])
    /\ Stamped
    /\ \E p \in Addressed : ~Alive(universe, p[1], p[2])
    /\ \E p \in (Rows(pre) \X Cols(pre)) \ Addressed : Alive(universe, p[1], p[2])

GliderLive == {p \in (0..2) \X (0..2) : glider[p[1] * 3 + p[2] + 1]}

\* The glider's live cells, inserted at (row, col), moved by (by, by).
GliderAt(u, row, col, by) ==
    {<<(row + by + p[1]) % u.height, (col + by + p[2]) % u.width>> : p \in GliderLive}

\* C6: on the 8 x 8 grid, four ticks after add_glider at any offset the live
\* cells are those of the glider one row and one column further, modulo 8.
C6_GliderTranslation ==
    (nticks = 4) =>
        /\ status = "ok"
        /\ LiveCells(universe) = GliderAt(universe, drawn[1], drawn[2], 1)

\* Four ticks after a glider inserted across the corner of the grid.
C6_Witness ==
    /\ op.name = "tick" /\ nticks = 4 /\ drawn = <<6, 7>>
    /\ Cardinality(LiveCells(universe)) = 5
    /\ LiveCells(universe) = {<<7, 1>>, <<0, 2>>, <<1, 0>>, <<1, 1>>, <<1, 2>>}

BlinkerSet(u, line) ==
    {BlinkerList(u, drawn.row, drawn.col, line)[k] : k \in 1..3}

\* C7: once the blinker is drawn, every tick leaves the grid with exactly the
\* blinker about the same centre: along the other line after an odd number of
\* ticks, along the line drawn after an even number.
C7_BlinkerOscillates ==
    (op.name = "tick") =>
        /\ status = "ok"
        /\ LiveCells(universe)
              = BlinkerSet(universe, IF nticks = 1 THEN OtherLine(drawn.line) ELSE drawn.line)

\* An even tick, not the first, of a blinker drawn across the edge of the grid:
\* the grid holds the blinker as drawn, the inactive buffer the other one.
C7_Witness ==
    /\ op.name = "tick" /\ nticks = 0 /\ universe.i = 0
    /\ drawn.col = 0 /\ drawn.line = "row"
    /\ LiveCells(universe) = BlinkerSet(universe, "row")
    /\ LiveCells(pre) = BlinkerSet(universe, "column")
    /\ \E k \in 1..Len(universe.cells[2]) : universe.cells[2][k]

=============================================================================
